---- MODULE Spec2Model ----
(***************************************************************************)
(* Linux Helper Agent: the dangerCheck command-risk classifier of          *)
(* src/src/tools.ts and the LinuxHelperAgent message handler of            *)
(* src/src/server.ts.                                                      *)
(*                                                                         *)
(* A JavaScript string is a sequence of one-character strings, so that the *)
(* regular expressions of the signature table can be run over it.  Text    *)
(* that is only ever compared or concatenated is a TLA+ string.            *)
(***************************************************************************)
EXTENDS Integers, Sequences, FiniteSets, TLC

VARIABLES
    command,      \* classifier input: the command string being composed
    nfrag,        \* number of fragments the input was composed of
    result,       \* value returned by the latest dangerCheck call, or NoResult
    first,        \* value returned by the first call on this input, or NoResult
    tableState,   \* lastIndex of the RegExp objects of the latest call's table
    ncalls,       \* number of calls made on this input
    others,       \* whether calls on earlier inputs were made
    helper,       \* latest call of a prompt-building tool: name, arguments, value
    messages,     \* agent: rows of the SQL table `messages`, in id order
    rowReq,       \* agent: per row of `messages`, the request whose handling saved it
    chats,        \* agent: handleChat invocations suspended at `await result.text`
    sent,         \* agent: events passed to connection.send, per connection
    nreq,         \* agent: number of onMessage invocations so far
    outcome,      \* agent: per onMessage invocation, how its handling went
    ngen,         \* agent: number of generation callbacks run so far
    socket,       \* client: readyState of the WebSocket in wsRef
    connected,    \* client: the state `connected`
    displayed,    \* client: the state `messages`, the displayed message list
    isLoading,    \* client: the state `isLoading`
    streamingContentRef,  \* client: streamingContentRef.current
    received,     \* client: number of the agent's events ws.onmessage has handled
    toAgent       \* client: messages sent on the socket that the agent has not received

toolVars == <<command, nfrag, result, first, tableState, ncalls, others, helper>>
agentVars == <<messages, rowReq, chats, sent, nreq, outcome, ngen>>
clientVars == <<socket, connected, displayed, isLoading, streamingContentRef, received, toAgent>>
vars == <<command, nfrag, result, first, tableState, ncalls, others, helper,
          messages, rowReq, chats, sent, nreq, outcome, ngen,
          socket, connected, displayed, isLoading, streamingContentRef, received, toAgent>>

(***************************************************************************)
(* Bounds                                                                  *)
(***************************************************************************)
MaxFrags == 3
MaxCalls == 2
MaxArg == 3
MaxReq == 2
MaxLogReq == 3
MaxSend == 3
MaxGen == 2

(***************************************************************************)
(* Strings                                                                 *)
(***************************************************************************)
RECURSIVE Str(_)
\* the text of a character sequence (template-literal interpolation)
Str(s) == IF s = <<>> THEN "" ELSE Head(s) \o Str(Tail(s))

LowerCase == <<"a", "b", "c", "d", "e", "f", "g", "h", "i", "j", "k", "l", "m",
               "n", "o", "p", "q", "r", "s", "t", "u", "v", "w", "x", "y", "z">>
UpperCase == <<"A", "B", "C", "D", "E", "F", "G", "H", "I", "J", "K", "L", "M",
               "N", "O", "P", "Q", "R", "S", "T", "U", "V", "W", "X", "Y", "Z">>

\* mutant of toUpperCase: the risk level is interpolated as stored
toUpperCase_None(s) == s

\* String.prototype.toUpperCase, character by character
toUpperCase(s) ==
    [i \in DOMAIN s |->
        IF \E k \in DOMAIN LowerCase : LowerCase[k] = s[i]
        THEN UpperCase[CHOOSE k \in DOMAIN LowerCase : LowerCase[k] = s[i]]
        ELSE s[i]]

Max(S) == CHOOSE x \in S : \A y \in S : y <= x
Min(S) == CHOOSE x \in S : \A y \in S : x <= y

(***************************************************************************)
(* Regular expressions.  A pattern is a sequence of items; an item is a    *)
(* character set (possibly negated) or a group, with a quantifier          *)
(* "1", "?", "*" or "+".                                                   *)
(***************************************************************************)
\* \s of ECMAScript, restricted to the white space a TLA+ string can hold
WhiteSpace == {" ", "\t", "\n", "\r", "\f"}
\* . matches everything but a line terminator
LineTerminators == {"\n", "\r"}

Ch(c) == [kind |-> "set", set |-> {c}, neg |-> FALSE, seq |-> <<>>, q |-> "1"]
Opt(c) == [kind |-> "set", set |-> {c}, neg |-> FALSE, seq |-> <<>>, q |-> "?"]
Ws(q) == [kind |-> "set", set |-> WhiteSpace, neg |-> FALSE, seq |-> <<>>, q |-> q]
Dot(q) == [kind |-> "set", set |-> LineTerminators, neg |-> TRUE, seq |-> <<>>, q |-> q]
Range == [kind |-> "set", set |-> {LowerCase[k] : k \in DOMAIN LowerCase},
          neg |-> FALSE, seq |-> <<>>, q |-> "1"]
Lit(s) == [i \in DOMAIN s |-> Ch(s[i])]
\* mutant of Group: the optional group is left out of the pattern
Group_Dropped(items, q) ==
    [kind |-> "group", set |-> {}, neg |-> FALSE, seq |-> <<>>, q |-> "1"]
Group(items, q) == [kind |-> "group", set |-> {}, neg |-> FALSE, seq |-> items, q |-> q]

RECURSIVE Ends(_, _, _), EndsOnce(_, _, _), EndsStar(_, _, _)
\* the positions at which one occurrence of item `it` can end when it starts
\* at offset pos of str (offsets count characters consumed, from 0)
EndsOnce(it, str, pos) ==
    IF it.kind = "set"
    THEN IF pos < Len(str) /\ ((str[pos + 1] \in it.set) # it.neg)
         THEN {pos + 1} ELSE {}
    ELSE Ends(it.seq, str, pos)

\* zero or more occurrences
EndsStar(it, str, pos) ==
    {pos} \cup UNION {EndsStar(it, str, e) : e \in EndsOnce(it, str, pos) \ {pos}}

\* the positions at which a match of the item sequence can end when it
\* starts at offset pos
Ends(items, str, pos) ==
    IF items = <<>> THEN {pos}
    ELSE LET it == Head(items)
             here == CASE it.q = "1" -> EndsOnce(it, str, pos)
                       [] it.q = "?" -> {pos} \cup EndsOnce(it, str, pos)
                       [] it.q = "*" -> EndsStar(it, str, pos)
                       [] it.q = "+" -> UNION {EndsStar(it, str, e) :
                                                  e \in EndsOnce(it, str, pos)}
         IN UNION {Ends(Tail(items), str, e) : e \in here}

\* RegExp.prototype.test: a search from lastIndex when the g flag is set and
\* from 0 otherwise; only a g regexp writes lastIndex (the end of the match,
\* or 0 when there is none).  Every quantifier of the table is greedy and no
\* pattern has an alternative, so the match chosen at a start is the longest.
RegExpTest(re, str, lastIndex) ==
    LET global == "g" \in re.flags
        from == IF global THEN lastIndex ELSE 0
        starts == {p \in from..Len(str) : Ends(re.source, str, p) # {}}
    IN IF starts = {}
       THEN [matched |-> FALSE, lastIndex |-> IF global THEN 0 ELSE lastIndex]
       ELSE [matched |-> TRUE,
             lastIndex |-> IF global THEN Max(Ends(re.source, str, Min(starts)))
                           ELSE lastIndex]

\* mutant of RegExpLiteral: the literal carries the g flag
RegExpLiteral_Global(items) == [source |-> items, flags |-> {"g"}]

\* a regular-expression literal /source/ has no flags
RegExpLiteral(items) == [source |-> items, flags |-> {}]

(***************************************************************************)
(* dangerCheck                                                             *)
(***************************************************************************)
critical == <<"c", "r", "i", "t", "i", "c", "a", "l">>
high == <<"h", "i", "g", "h">>
medium == <<"m", "e", "d", "i", "u", "m">>

\* the signature table, built on every call of execute
dangerousPatterns == <<
    \* /rm\s+-rf?\s+\//
    [pattern |-> RegExpLiteral(Lit(<<"r", "m">>) \o <<Ws("+")>> \o Lit(<<"-", "r">>)
                    \o <<Opt("f"), Ws("+"), Ch("/")>>),
     risk |-> critical, reason |-> "Deletes root filesystem"],
    \* /rm\s+-rf/
    [pattern |-> RegExpLiteral(Lit(<<"r", "m">>) \o <<Ws("+")>> \o Lit(<<"-", "r", "f">>)),
     risk |-> high, reason |-> "Recursive force delete without confirmation"],
    \* /mkfs/
    [pattern |-> RegExpLiteral(Lit(<<"m", "k", "f", "s">>)),
     risk |-> critical, reason |-> "Formats filesystem, destroys all data"],
    \* /dd\s+.*of=\/dev\//
    [pattern |-> RegExpLiteral(Lit(<<"d", "d">>) \o <<Ws("+"), Dot("*")>>
                    \o Lit(<<"o", "f", "=", "/", "d", "e", "v", "/">>)),
     risk |-> critical, reason |-> "Overwrites disk device directly"],
    \* />\s*\/dev\/sd[a-z]/
    [pattern |-> RegExpLiteral(<<Ch(">"), Ws("*")>>
                    \o Lit(<<"/", "d", "e", "v", "/", "s", "d">>) \o <<Range>>),
     risk |-> critical, reason |-> "Overwrites disk device"],
    \* /chmod\s+-R\s+777/
    [pattern |-> RegExpLiteral(Lit(<<"c", "h", "m", "o", "d">>) \o <<Ws("+")>>
                    \o Lit(<<"-", "R">>) \o <<Ws("+")>> \o Lit(<<"7", "7", "7">>)),
     risk |-> high, reason |-> "Removes all file permissions security"],
    \* /chown\s+-R/
    [pattern |-> RegExpLiteral(Lit(<<"c", "h", "o", "w", "n">>) \o <<Ws("+")>>
                    \o Lit(<<"-", "R">>)),
     risk |-> medium, reason |-> "Recursive ownership change"],
    \* /:\(\)\{\s*:\|:\s*&\s*\};\s*:/
    [pattern |-> RegExpLiteral(Lit(<<":", "(", ")", "{">>) \o <<Ws("*")>>
                    \o Lit(<<":", "|", ":">>) \o <<Ws("*"), Ch("&"), Ws("*")>>
                    \o Lit(<<"}", ";">>) \o <<Ws("*"), Ch(":")>>),
     risk |-> critical, reason |-> "Fork bomb - crashes system"],
    \* />\s*\/etc\/passwd/
    [pattern |-> RegExpLiteral(<<Ch(">"), Ws("*")>>
                    \o Lit(<<"/", "e", "t", "c", "/", "p", "a", "s", "s", "w", "d">>)),
     risk |-> critical, reason |-> "Overwrites user database"],
    \* /curl.*\|\s*(ba)?sh/
    [pattern |-> RegExpLiteral(Lit(<<"c", "u", "r", "l">>) \o <<Dot("*"), Ch("|"), Ws("*"),
                    Group(Lit(<<"b", "a">>), "?")>> \o Lit(<<"s", "h">>)),
     risk |-> high, reason |-> "Executes remote script without review"],
    \* /wget.*\|\s*(ba)?sh/
    [pattern |-> RegExpLiteral(Lit(<<"w", "g", "e", "t">>) \o <<Dot("*"), Ch("|"), Ws("*"),
                    Group(Lit(<<"b", "a">>), "?")>> \o Lit(<<"s", "h">>)),
     risk |-> high, reason |-> "Executes remote script without review"] >>

\* mutant of test: the pattern is matched at the start of the command only
test_Anchored(p, cmd) ==
    [matched |-> Ends(p.pattern.source, cmd, 0) # {}, lastIndex |-> 0]

\* p.pattern.test(command), on the freshly built table (lastIndex 0)
test(p, cmd) == RegExpTest(p.pattern, cmd, 0)

\* mutant of risks: the scan stops at the first signature that matches
risks_FirstOnly(cmd) ==
    LET matching == SelectSeq(dangerousPatterns, LAMBDA p : test(p, cmd).matched)
    IN IF matching = <<>> THEN <<>>
       ELSE <<[risk |-> matching[1].risk, reason |-> matching[1].reason]>>

\* mutant of risks: the reason is read from the table at the finding's index
risks_TableIndex(cmd) ==
    LET matching == SelectSeq(dangerousPatterns, LAMBDA p : test(p, cmd).matched)
    IN [i \in DOMAIN matching |->
          [risk |-> matching[i].risk, reason |-> dangerousPatterns[i].reason]]

\* dangerousPatterns.filter(...).map(...)
risks(cmd) ==
    LET matching == SelectSeq(dangerousPatterns, LAMBDA p : test(p, cmd).matched)
    IN [i \in DOMAIN matching |-> [risk |-> matching[i].risk, reason |-> matching[i].reason]]

\* the instruction field, as the sequence of the lines of its text (the text
\* is these lines joined by "\n"; risks.map(...).join("\n") contributes one
\* line per finding).  The leading warning-sign and check-mark emoji are
\* written as their escapes.
instruction(cmd, rs) ==
    IF Len(rs) > 0
    THEN <<"\\u26A0\\uFE0F DANGER DETECTED in command: " \o Str(cmd),
           "",
           "Risks found:">>
         \o [i \in DOMAIN rs |->
               "- [" \o Str(toUpperCase(rs[i].risk)) \o "] " \o rs[i].reason]
         \o <<"",
              "Provide:",
              "1. **Why It's Dangerous**: Detailed explanation of what could go wrong",
              "2. **Safer Alternative**: A safer way to accomplish the same goal",
              "3. **If You Must Proceed**: Precautions and backup steps",
              "4. **Recovery Options**: What to do if something goes wrong">>
    ELSE <<"\\u2705 No obvious dangers detected in: " \o Str(cmd),
           "",
           "However, always:",
           "1. Understand what a command does before running it",
           "2. Test with dry-run flags when available",
           "3. Have backups for important data",
           "4. Use sudo only when necessary">>

\* mutant of dangerCheck: hasDanger is risks.length > 1
dangerCheck_MoreThanOne(cmd) ==
    LET rs == risks(cmd)
    IN [type |-> "danger_check", command |-> cmd, risks |-> rs,
        hasDanger |-> Len(rs) > 1, instruction |-> instruction(cmd, rs)]

\* mutant of dangerCheck: hasDanger is risks.length >= 0
dangerCheck_AtLeastZero(cmd) ==
    LET rs == risks(cmd)
    IN [type |-> "danger_check", command |-> cmd, risks |-> rs,
        hasDanger |-> Len(rs) >= 0, instruction |-> instruction(cmd, rs)]

\* dangerCheck.execute({command})
dangerCheck(cmd) ==
    LET rs == risks(cmd)
    IN [type |-> "danger_check",
        command |-> cmd,
        risks |-> rs,
        hasDanger |-> Len(rs) > 0,
        instruction |-> instruction(cmd, rs)]

\* the lastIndex of each RegExp of the table once execute has returned
tableAfter(cmd) == [i \in DOMAIN dangerousPatterns |-> test(dangerousPatterns[i], cmd).lastIndex]

(***************************************************************************)
(* Classifier inputs: a command is typed fragment by fragment, or pasted   *)
(* whole.                                                                  *)
(***************************************************************************)
ForkBomb == <<":", "(", ")", "{", " ", ":", "|", ":", "&", " ", "}", ";", ":">>

Fragments == {
    <<"r", "m", " ">>,
    <<"-", "r", "f">>,
    <<" ", "/">>,
    <<" ">>,
    <<"\n">>,
    <<"x">>,
    <<"m", "k", "f", "s">>,
    <<">">>,
    <<"/", "d", "e", "v", "/", "s", "d", "a">>,
    ForkBomb,
    <<"c", "u", "r", "l">>,
    <<"|">>,
    <<"s", "h">> }

RmRfRoot == <<"r", "m", " ", "-", "r", "f", " ", "/">>
LsLa == <<"l", "s", " ", "-", "l", "a">>
CurlBash == <<"c", "u", "r", "l", " ", "h", "t", "t", "p", ":", "/", "/", "e", "x", "a",
              "m", "p", "l", "e", ".", "c", "o", "m", "/", "i", "n", "s", "t", "a", "l",
              "l", ".", "s", "h", " ", "|", " ", "b", "a", "s", "h">>
ChownData == <<"c", "h", "o", "w", "n", " ", "-", "R", " ", "u", "s", "e", "r", ":", "u",
               "s", "e", "r", " ", "/", "d", "a", "t", "a">>
ChmodVar == <<"c", "h", "m", "o", "d", " ", "-", "R", " ", "7", "7", "7", " ", "/", "v",
              "a", "r", "/", "w", "w", "w">>
RmRRoot == <<"r", "m", " ", "-", "r", " ", "/">>
RmRfTmp == <<"r", "m", " ", "-", "r", "f", " ", "/", "t", "m", "p", "/", "b", "u", "i",
             "l", "d">>
DdZero == <<"d", "d", " ", "i", "f", "=", "/", "d", "e", "v", "/", "z", "e", "r", "o", " ",
            "o", "f", "=", "/", "d", "e", "v", "/", "s", "d", "a">>
WgetSh == <<"w", "g", "e", "t", " ", "-", "q", "O", "-", " ", "h", "t", "t", "p", ":", "/",
            "/", "x", ".", "s", "h", " ", "|", " ", "s", "h">>
CurlWget == <<"c", "u", "r", "l", " ", "x", " ", "|", " ", "w", "g", "e", "t", " ", "y",
              " ", "|", "\t", "s", "h">>

EchoPasswd == <<"e", "c", "h", "o", " ", "x", " ", ">", " ", "/", "e", "t", "c", "/", "p",
                "a", "s", "s", "w", "d">>
MkfsExt4 == <<"m", "k", "f", "s", ".", "e", "x", "t", "4", " ", "/", "d", "e", "v", "/", "s",
              "d", "b", "1">>

Examples == {RmRfRoot, LsLa, CurlBash, ChownData, ChmodVar, RmRRoot, RmRfTmp, DdZero,
             WgetSh, CurlWget, EchoPasswd, MkfsExt4}

NoResult == [type |-> "none"]
Zeros == [i \in DOMAIN dangerousPatterns |-> 0]

(***************************************************************************)
(* The classifier as a state machine                                       *)
(***************************************************************************)
InitTools ==
    /\ command = <<>>
    /\ nfrag = 0
    /\ result = NoResult
    /\ first = NoResult
    /\ tableState = Zeros
    /\ ncalls = 0
    /\ others = FALSE
    /\ helper = NoResult

\* the caller extends the command it is about to check
Type(f) ==
    /\ result = NoResult
    /\ nfrag < MaxFrags
    /\ command' = command \o f
    /\ nfrag' = nfrag + 1
    /\ UNCHANGED <<result, first, tableState, ncalls, others, helper>>
    /\ UNCHANGED <<agentVars, clientVars>>

\* the caller takes a whole command
Paste(c) ==
    /\ result = NoResult
    /\ nfrag = 0
    /\ command' = c
    /\ nfrag' = MaxFrags
    /\ UNCHANGED <<result, first, tableState, ncalls, others, helper>>
    /\ UNCHANGED <<agentVars, clientVars>>

\* linuxTools.dangerCheck.execute({command}); the body has no await, so a call
\* runs to completion before any other call starts
Call ==
    /\ ncalls < MaxCalls
    /\ ncalls' = ncalls + 1
    /\ result' = dangerCheck(command)
    /\ first' = IF first = NoResult THEN dangerCheck(command) ELSE first
    /\ tableState' = tableAfter(command)
    /\ UNCHANGED <<command, nfrag, others, helper>>
    /\ UNCHANGED <<agentVars, clientVars>>

\* the caller turns to another command
NewCommand ==
    /\ result # NoResult
    /\ command' = <<>>
    /\ nfrag' = 0
    /\ result' = NoResult
    /\ first' = NoResult
    /\ ncalls' = 0
    /\ others' = TRUE
    /\ UNCHANGED <<tableState, helper>>
    /\ UNCHANGED <<agentVars, clientVars>>

NextTools ==
    \/ \E f \in Fragments : Type(f)
    \/ \E c \in Examples : Paste(c)
    \/ Call
    \/ NewCommand

(***************************************************************************)
(* The prompt-building tools.  A string argument is a character sequence;  *)
(* an optional argument is Absent or Present(s).  An instruction is the    *)
(* sequence of the lines of the template literal.                          *)
(***************************************************************************)
Absent == [present |-> FALSE, value |-> <<>>]
Present(s) == [present |-> TRUE, value |-> s]

\* ToBoolean of an optional string: undefined and "" are falsy
truthy(x) == x.present /\ x.value # <<>>

\* mutant of OrDefault: only an absent argument takes the default (x ?? d)
OrDefault_Nullish(x, d) == IF x.present THEN x.value ELSE d

\* x || d
OrDefault(x, d) == IF truthy(x) THEN x.value ELSE d

generic == <<"g", "e", "n", "e", "r", "i", "c">>
unknown == <<"u", "n", "k", "n", "o", "w", "n">>

\* linuxTools.explainCommand.execute
explainCommand(cmd) ==
    [type |-> "explain",
     command |-> cmd,
     instruction |->
        <<"Provide a detailed breakdown of this command: " \o Str(cmd),
          "        ",
          "Format your response as:",
          "1. **Command Overview**: What does this command do at a high level?",
          "2. **Components Breakdown**:",
          "   - Base command: [explain]",
          "   - Each flag/option: [explain what each does]",
          "   - Arguments: [explain what each argument represents]",
          "3. **Example Output**: What would typical output look like?",
          "4. **Common Variations**: Other useful ways to use this command",
          "5. **Safety Notes**: Any warnings about destructive potential">>]

\* linuxTools.suggestCommand.execute
suggestCommand(task, distro) ==
    [type |-> "suggest",
     task |-> task,
     distro |-> OrDefault(distro, generic),
     instruction |->
        <<"Suggest the best command(s) to: " \o Str(task)
              \o (IF truthy(distro) THEN " (for " \o Str(distro.value) \o ")" ELSE ""),
          "        ",
          "Format your response as:",
          "1. **Recommended Command**: The primary command to use",
          "2. **Explanation**: Why this is the best approach",
          "3. **Alternative Options**: Other ways to accomplish this",
          "4. **Pro Tips**: Useful flags or variations",
          "5. **Example Usage**: Real-world example with expected output">>]

\* linuxTools.fixError.execute
fixError(error, context) ==
    [type |-> "fix",
     error |-> error,
     context |-> OrDefault(context, unknown),
     instruction |->
        <<"Help troubleshoot this error: " \o Str(error)
              \o (IF truthy(context) THEN " (Context: " \o Str(context.value) \o ")" ELSE ""),
          "        ",
          "Format your response as:",
          "1. **Error Analysis**: What does this error actually mean?",
          "2. **Common Causes**: Top reasons this error occurs",
          "3. **Diagnostic Steps**: Commands to gather more information",
          "4. **Solution(s)**: Step-by-step fix instructions",
          "5. **Prevention**: How to avoid this in the future">>]

\* linuxTools.manPage.execute; a backquote is written \u0060
manPage(cmd) ==
    [type |-> "manpage",
     command |-> cmd,
     instruction |->
        <<"Provide a man page summary for: " \o Str(cmd),
          "        ",
          "Format your response as:",
          "## " \o Str(toUpperCase(cmd)) \o "(1) - Manual Page Summary",
          "",
          "### NAME",
          "[command] - [one-line description]",
          "",
          "### SYNOPSIS",
          "\\u0060\\u0060\\u0060",
          "[usage pattern]",
          "\\u0060\\u0060\\u0060",
          "",
          "### DESCRIPTION",
          "[Brief description of what the command does]",
          "",
          "### COMMONLY USED OPTIONS",
          "| Option | Description |",
          "|--------|-------------|",
          "| -x | ... |",
          "",
          "### EXAMPLES",
          "\\u0060\\u0060\\u0060bash",
          "# Example 1: [description]",
          "[command example]",
          "",
          "# Example 2: [description]",
          "[command example]",
          "\\u0060\\u0060\\u0060",
          "",
          "### SEE ALSO",
          "[Related commands]">>]

\* the characters arguments are written in, and the arguments
Alphabet == {"l", "-"}
Args == UNION {[1..n -> Alphabet] : n \in 0..MaxArg}
Optionals == {Absent} \cup {Present(s) : s \in Args}

\* the model calls explainCommand
CallExplain(cmd) ==
    /\ helper' = [tool |-> "explainCommand", args |-> <<cmd>>, value |-> explainCommand(cmd)]
    /\ UNCHANGED <<command, nfrag, result, first, tableState, ncalls, others>>
    /\ UNCHANGED <<agentVars, clientVars>>

\* the model calls suggestCommand, with or without a distro
CallSuggest(task, distro) ==
    /\ helper' = [tool |-> "suggestCommand", args |-> <<task, distro>>,
                  value |-> suggestCommand(task, distro)]
    /\ UNCHANGED <<command, nfrag, result, first, tableState, ncalls, others>>
    /\ UNCHANGED <<agentVars, clientVars>>

\* the model calls fixError, with or without a context
CallFix(error, context) ==
    /\ helper' = [tool |-> "fixError", args |-> <<error, context>>,
                  value |-> fixError(error, context)]
    /\ UNCHANGED <<command, nfrag, result, first, tableState, ncalls, others>>
    /\ UNCHANGED <<agentVars, clientVars>>

\* the model calls manPage
CallManPage(cmd) ==
    /\ helper' = [tool |-> "manPage", args |-> <<cmd>>, value |-> manPage(cmd)]
    /\ UNCHANGED <<command, nfrag, result, first, tableState, ncalls, others>>
    /\ UNCHANGED <<agentVars, clientVars>>

NextHelpers ==
    \/ \E cmd \in Args : CallExplain(cmd)
    \/ \E task \in Args, distro \in Optionals : CallSuggest(task, distro)
    \/ \E error \in Args, context \in Optionals : CallFix(error, context)
    \/ \E cmd \in Args : CallManPage(cmd)

(***************************************************************************)
(* LinuxHelperAgent.  The agent is a Durable Object: a handler runs alone  *)
(* until it awaits the completion service, so onMessage is one step up to  *)
(* `await result.text`, and the callbacks and the rest of handleChat are   *)
(* further steps that other handlers can run between.                      *)
(***************************************************************************)
MaxConns == 2
Conns == 1..MaxConns

Undefined == "undefined"
Contents == {"q1"}
Deltas == {"d"}
Responses == {"", "answer"}

\* the keys of the linuxTools object literal
OwnTools == {"explainCommand", "suggestCommand", "fixError", "manPage", "dangerCheck"}
\* property names every object literal inherits from Object.prototype
Inherited == {"constructor", "toString", "valueOf", "hasOwnProperty", "__proto__"}

\* the incoming message strings: text that is not JSON, the JSON null, and
\* objects with the fields type, content and toolName (Undefined when absent)
Object(type, content, toolName) ==
    [isNull |-> FALSE, type |-> type, content |-> content, toolName |-> toolName]
Null == [isNull |-> TRUE, type |-> Undefined, content |-> Undefined, toolName |-> Undefined]
Payloads ==
    {[json |-> FALSE, value |-> Null], [json |-> TRUE, value |-> Null]}
    \cup {[json |-> TRUE, value |-> Object("chat", c, Undefined)] :
             c \in Contents \cup {Undefined}}
    \cup {[json |-> TRUE, value |-> Object(t, Undefined, Undefined)] :
             t \in {"clear", "get_history", "ping"}}
    \cup {[json |-> TRUE, value |-> Object("tool_confirm", Undefined, n)] :
             n \in {"dangerCheck", "constructor", "runShell"}}

\* JSON.parse(message): the value, or a SyntaxError
JSONparse(message) ==
    IF message.json THEN [ok |-> TRUE, value |-> message.value]
    ELSE [ok |-> FALSE, error |-> "SyntaxError"]

\* linuxTools[toolName]: a property read, own or inherited
toolDef(toolName) ==
    IF toolName \in OwnTools \cup Inherited THEN toolName ELSE Undefined

\* executeLinuxTool(toolName, args, env)
executeLinuxTool(toolName) ==
    IF toolDef(toolName) = Undefined
    THEN [ok |-> FALSE, error |-> "Unknown tool"]
    ELSE [ok |-> TRUE, value |-> [success |-> TRUE, message |-> "Tool executed"]]

maxSteps == 5

\* mutant of clearedEvent: the answer echoes the request's tag
clearedEvent_Echo == [type |-> "clear"]

\* the events the agent sends
clearedEvent == [type |-> "cleared"]
historyEvent(rows) == [type |-> "history", messages |-> rows]
toolResultEvent(res) == [type |-> "tool_result", result |-> res]
processErrorEvent == [type |-> "error", message |-> "Failed to process message"]
streamEvent(delta) == [type |-> "stream", content |-> delta]
toolCallsEvent(calls) ==
    [type |-> "tool_calls",
     tools |-> [i \in DOMAIN calls |-> [name |-> calls[i].toolName, args |-> calls[i].args]]]
toolResultsEvent(results) == [type |-> "tool_results", results |-> results]
\* mutant of doneEvent: the final event is sent as one more stream event
doneEvent_AsStream(response) == [type |-> "stream", content |-> response]
doneEvent(response) == [type |-> "done", content |-> response]
generationErrorEvent ==
    [type |-> "error", message |-> "Failed to generate response. Please try again."]

\* the tool calls a generation step can end with, and the results of running
\* them (every tool has an execute function, so each call has a result)
ToolCalls == {<<[toolName |-> "dangerCheck", args |-> [command |-> Str(RmRfRoot)]]>>}
toolResults(calls) ==
    [i \in DOMAIN calls |->
        [toolName |-> calls[i].toolName, args |-> calls[i].args,
         result |-> dangerCheck(RmRfRoot)]]

\* connection.send(JSON.stringify(event)) while handling request r
send(pre, conn, r, event) == [pre EXCEPT ![conn] = Append(@, [req |-> r, event |-> event])]

\* saveMessage
saveMessage(rows, message) == Append(rows, message)
\* mutant of getMessages: the rows are read newest first (ORDER BY id DESC)
getMessages_Desc(rows) == [i \in DOMAIN rows |-> rows[Len(rows) + 1 - i]]
\* getMessages: SELECT * ... ORDER BY id ASC
getMessages(rows) == rows

InitAgent ==
    /\ messages = <<>>
    /\ rowReq = <<>>
    /\ chats = {}
    /\ sent = [c \in Conns |-> <<>>]
    /\ nreq = 0
    /\ outcome = <<>>
    /\ ngen = 0

Outcome(conn, message, failure) == [conn |-> conn, message |-> message, failure |-> failure]

\* onMessage(connection, message), with handleChat up to `await result.text`
onMessage(conn, message) ==
    /\ nreq' = nreq + 1
    /\ LET r == nreq + 1
           parsed == JSONparse(message)
           data == parsed.value
           caught(failure) ==
               /\ sent' = send(sent, conn, r, processErrorEvent)
               /\ outcome' = Append(outcome, Outcome(conn, message, failure))
               /\ UNCHANGED <<messages, rowReq, chats>>
       IN IF ~parsed.ok THEN caught("SyntaxError")
          ELSE IF data.isNull THEN caught("TypeError")
          ELSE IF data.type = "chat" THEN
               \* content is NOT NULL in the messages table
               IF data.content = Undefined THEN caught("SqlError")
               ELSE /\ messages' = saveMessage(messages, [role |-> "user", content |-> data.content])
                    /\ rowReq' = Append(rowReq, r)
                    /\ chats' = chats \cup {[req |-> r, conn |-> conn, steps |-> 0]}
                    /\ outcome' = Append(outcome, Outcome(conn, message, "none"))
                    /\ UNCHANGED sent
          ELSE IF data.type = "clear" THEN
               /\ messages' = <<>>
               /\ rowReq' = <<>>
               /\ sent' = send(sent, conn, r, clearedEvent)
               /\ outcome' = Append(outcome, Outcome(conn, message, "none"))
               /\ UNCHANGED chats
          ELSE IF data.type = "get_history" THEN
               /\ sent' = send(sent, conn, r, historyEvent(getMessages(messages)))
               /\ outcome' = Append(outcome, Outcome(conn, message, "none"))
               /\ UNCHANGED <<messages, rowReq, chats>>
          ELSE IF data.type = "tool_confirm" THEN
               LET res == executeLinuxTool(data.toolName)
               IN IF res.ok
                  THEN /\ sent' = send(sent, conn, r, toolResultEvent(res.value))
                       /\ outcome' = Append(outcome, Outcome(conn, message, "none"))
                       /\ UNCHANGED <<messages, rowReq, chats>>
                  ELSE caught("UnknownTool")
          ELSE /\ outcome' = Append(outcome, Outcome(conn, message, "none"))
               /\ UNCHANGED <<messages, rowReq, chats, sent>>
    /\ UNCHANGED ngen
    /\ UNCHANGED toolVars

\* onChunk: a text delta of the running generation
onChunk(chat, delta) ==
    /\ chat \in chats
    /\ ngen < MaxGen
    /\ ngen' = ngen + 1
    /\ sent' = send(sent, chat.conn, chat.req, streamEvent(delta))
    /\ UNCHANGED <<messages, rowReq, chats, nreq, outcome>>
    /\ UNCHANGED <<toolVars, clientVars>>

\* onStepFinish of a step that ended with tool calls
onStepFinish(chat, calls) ==
    /\ chat \in chats
    /\ chat.steps < maxSteps
    /\ ngen < MaxGen
    /\ ngen' = ngen + 1
    /\ sent' = send(send(sent, chat.conn, chat.req, toolCallsEvent(calls)),
                    chat.conn, chat.req, toolResultsEvent(toolResults(calls)))
    /\ chats' = (chats \ {chat}) \cup {[chat EXCEPT !.steps = @ + 1]}
    /\ UNCHANGED <<messages, rowReq, nreq, outcome>>
    /\ UNCHANGED <<toolVars, clientVars>>

\* handleChat after `await result.text` resolved
handleChatDone(chat, response) ==
    /\ chat \in chats
    /\ messages' = saveMessage(messages, [role |-> "assistant", content |-> response])
    /\ rowReq' = Append(rowReq, chat.req)
    /\ sent' = send(sent, chat.conn, chat.req, doneEvent(response))
    /\ chats' = chats \ {chat}
    /\ UNCHANGED <<nreq, outcome, ngen>>
    /\ UNCHANGED <<toolVars, clientVars>>

\* handleChat's catch: the completion service failed
handleChatCatch(chat) ==
    /\ chat \in chats
    /\ sent' = send(sent, chat.conn, chat.req, generationErrorEvent)
    /\ outcome' = [outcome EXCEPT ![chat.req].failure = "CompletionError"]
    /\ chats' = chats \ {chat}
    /\ UNCHANGED <<messages, rowReq, nreq, ngen>>
    /\ UNCHANGED <<toolVars, clientVars>>

(***************************************************************************)
(* The client: the useAgent hook of the browser application, on connection *)
(* ClientConn.  A handler of the socket or of the user interface runs to   *)
(* completion; the agent's events arrive in the order they were sent.      *)
(***************************************************************************)
ClientConn == 1

InitClient ==
    /\ socket = "CONNECTING"
    /\ connected = FALSE
    /\ displayed = <<>>
    /\ isLoading = FALSE
    /\ streamingContentRef = ""
    /\ received = 0
    /\ toAgent = <<>>

\* a displayed message; isStreaming is FALSE where the code leaves it undefined
Message(role, content, isStreaming) ==
    [role |-> role, content |-> content, isStreaming |-> isStreaming]

\* ws.send(JSON.stringify(data))
wsSend(queue, data) == Append(queue, [json |-> TRUE, value |-> data])

\* ws.onopen
wsOnOpen ==
    /\ socket = "CONNECTING"
    /\ socket' = "OPEN"
    /\ connected' = TRUE
    /\ toAgent' = wsSend(toAgent, Object("get_history", Undefined, Undefined))
    /\ UNCHANGED <<displayed, isLoading, streamingContentRef, received>>
    /\ UNCHANGED <<toolVars, agentVars>>

\* the socket closes; ws.onclose
wsOnClose ==
    /\ socket # "CLOSED"
    /\ socket' = "CLOSED"
    /\ connected' = FALSE
    /\ UNCHANGED <<displayed, isLoading, streamingContentRef, received, toAgent>>
    /\ UNCHANGED <<toolVars, agentVars>>

\* ws.onmessage, case "done": the update of the message list
onDone(list, data) ==
    IF Len(list) > 0 /\ list[Len(list)].isStreaming
    THEN [list EXCEPT ![Len(list)] = Message(@.role, data.content, FALSE)]
    ELSE list

\* ws.onmessage, case "stream": the update of the message list
onStream(list, content) ==
    IF Len(list) > 0 /\ list[Len(list)].isStreaming
    THEN [list EXCEPT ![Len(list)].content = content]
    ELSE Append(list, Message("assistant", content, TRUE))

\* ws.onmessage for the next event of the agent
wsOnMessage ==
    /\ socket = "OPEN"
    /\ received < Len(sent[ClientConn])
    /\ received' = received + 1
    /\ LET data == sent[ClientConn][received + 1].event
       IN CASE data.type = "history" ->
                 /\ displayed' = [i \in DOMAIN data.messages |->
                                    Message(data.messages[i].role, data.messages[i].content, FALSE)]
                 /\ UNCHANGED <<isLoading, streamingContentRef>>
            [] data.type = "stream" ->
                 /\ streamingContentRef' = streamingContentRef \o data.content
                 /\ displayed' = onStream(displayed, streamingContentRef \o data.content)
                 /\ UNCHANGED isLoading
            [] data.type = "done" ->
                 /\ streamingContentRef' = ""
                 /\ displayed' = onDone(displayed, data)
                 /\ isLoading' = FALSE
            [] data.type = "error" ->
                 /\ isLoading' = FALSE
                 /\ displayed' = Append(displayed,
                        Message("assistant", "\\u26A0\\uFE0F Error: " \o data.message, FALSE))
                 /\ UNCHANGED streamingContentRef
            [] data.type = "cleared" ->
                 /\ displayed' = <<>>
                 /\ UNCHANGED <<isLoading, streamingContentRef>>
            [] OTHER ->
                 UNCHANGED <<displayed, isLoading, streamingContentRef>>
    /\ UNCHANGED <<socket, connected, toAgent>>
    /\ UNCHANGED <<toolVars, agentVars>>

\* sendMessage(content), from handleSubmit or a quick action, both of which
\* the interface offers only while isLoading is false
sendMessage(content) ==
    /\ ~isLoading
    /\ socket = "OPEN"
    /\ nreq + Len(toAgent) < MaxSend
    /\ isLoading' = TRUE
    /\ streamingContentRef' = ""
    /\ displayed' = Append(displayed, Message("user", content, FALSE))
    /\ toAgent' = wsSend(toAgent, Object("chat", content, Undefined))
    /\ UNCHANGED <<socket, connected, received>>
    /\ UNCHANGED <<toolVars, agentVars>>

\* clearChat()
clearChat ==
    /\ socket = "OPEN"
    /\ nreq + Len(toAgent) < MaxSend
    /\ toAgent' = wsSend(toAgent, Object("clear", Undefined, Undefined))
    /\ UNCHANGED <<socket, connected, displayed, isLoading, streamingContentRef, received>>
    /\ UNCHANGED <<toolVars, agentVars>>

\* the agent receives the client's next message
Deliver ==
    /\ toAgent # <<>>
    /\ onMessage(ClientConn, Head(toAgent))
    /\ toAgent' = Tail(toAgent)
    /\ UNCHANGED <<socket, connected, displayed, isLoading, streamingContentRef, received>>

Init == InitTools /\ InitAgent /\ InitClient

Next ==
    \/ \E conn \in Conns, message \in Payloads :
          nreq < MaxReq /\ onMessage(conn, message) /\ UNCHANGED clientVars
    \/ \E chat \in chats, delta \in Deltas : onChunk(chat, delta)
    \/ \E chat \in chats, calls \in ToolCalls : onStepFinish(chat, calls)
    \/ \E chat \in chats, response \in Responses : handleChatDone(chat, response)
    \/ \E chat \in chats : handleChatCatch(chat)

\* the agent and its callers
Spec == Init /\ [][Next]_vars

\* handleChat's `await result.text` settles for request r: the promise is
\* fulfilled or rejected
Settle(r) ==
    \E chat \in chats :
        /\ chat.req = r
        /\ \/ \E response \in Responses : handleChatDone(chat, response)
           \/ handleChatCatch(chat)

\* the chat requests, with and without content
ChatPayloads ==
    {[json |-> TRUE, value |-> Object("chat", c, Undefined)] : c \in Contents \cup {Undefined}}

NextChat ==
    \/ \E conn \in Conns, message \in ChatPayloads :
          nreq < MaxReq /\ onMessage(conn, message) /\ UNCHANGED clientVars
    \/ \E chat \in chats, delta \in Deltas : onChunk(chat, delta)
    \/ \E chat \in chats, calls \in ToolCalls : onStepFinish(chat, calls)
    \/ \E chat \in chats, response \in Responses : handleChatDone(chat, response)
    \/ \E chat \in chats : handleChatCatch(chat)

\* the agent and the callers that chat, every generation settling
SpecChat == Init /\ [][NextChat]_vars /\ \A r \in 1..MaxReq : WF_vars(Settle(r))

\* the messages that read and write the log
LogPayloads ==
    {[json |-> TRUE, value |-> Object("chat", c, Undefined)] : c \in Contents}
    \cup {[json |-> TRUE, value |-> Object(t, Undefined, Undefined)] :
             t \in {"clear", "get_history"}}

NextLog ==
    \/ \E message \in LogPayloads :
          nreq < MaxLogReq /\ onMessage(1, message) /\ UNCHANGED clientVars
    \/ \E chat \in chats, response \in Responses : handleChatDone(chat, response)
    \/ \E chat \in chats : handleChatCatch(chat)

\* the agent and one caller that uses the log, with generations that
\* settle without a text delta or a tool call
SpecLog == Init /\ [][NextLog]_vars

\* the classifier and its callers
SpecTools == Init /\ [][NextTools]_vars

\* the prompt-building tools and their callers
SpecHelpers == Init /\ [][NextHelpers]_vars

NextClient ==
    \/ wsOnOpen
    \/ wsOnClose
    \/ wsOnMessage
    \/ \E content \in Contents : sendMessage(content)
    \/ clearChat
    \/ Deliver
    \/ \E chat \in chats, delta \in Deltas : onChunk(chat, delta)
    \/ \E chat \in chats, calls \in ToolCalls : onStepFinish(chat, calls)
    \/ \E chat \in chats, response \in Responses : handleChatDone(chat, response)
    \/ \E chat \in chats : handleChatCatch(chat)

\* the client and the agent: the browser handles every event that arrived on
\* an open socket, the agent every message that reached it, and every
\* generation settles
SpecClient ==
    /\ Init
    /\ [][NextClient]_vars
    /\ WF_vars(wsOnMessage)
    /\ WF_vars(Deliver)
    /\ \A r \in 1..MaxSend : WF_vars(Settle(r))

(***************************************************************************)
(* Properties of dangerCheck                                               *)
(***************************************************************************)
called == result # NoResult

\* the indices of the signatures whose pattern matches cmd
MatchingSignatures(cmd) ==
    {i \in DOMAIN dangerousPatterns : test(dangerousPatterns[i], cmd).matched}

RECURSIVE Ascending(_)
\* the elements of a set of numbers in increasing order
Ascending(S) == IF S = {} THEN <<>> ELSE <<Min(S)>> \o Ascending(S \ {Min(S)})

Finding(risk, reason) == [risk |-> risk, reason |-> reason]

Contains(str, sub) ==
    \E i \in 1..(Len(str) - Len(sub) + 1) : SubSeq(str, i, i + Len(sub) - 1) = sub

\* C1: a call returns one finding per signature whose pattern matches the
\* command, nothing dropped and nothing deduplicated, in signature-table order;
\* `rm -rf /` yields {critical, "Deletes root filesystem"} and then
\* {high, "Recursive force delete without confirmation"}.
C1_AllMatchesInTableOrder ==
    called =>
        LET order == Ascending(MatchingSignatures(result.command))
        IN /\ Len(result.risks) = Len(order)
           /\ \A k \in DOMAIN order :
                 result.risks[k] = Finding(dangerousPatterns[order[k]].risk,
                                           dangerousPatterns[order[k]].reason)
           /\ result.command = RmRfRoot =>
                 result.risks = <<Finding(critical, "Deletes root filesystem"),
                                  Finding(high, "Recursive force delete without confirmation")>>

C1_Witness ==
    /\ called
    /\ result.command = RmRfRoot
    /\ Len(result.risks) = 2

\* C2: a command that contains the fork-bomb idiom anywhere has hasDanger true
\* and a finding {critical, "Fork bomb - crashes system"}.
C2_ForkBombDetected ==
    (called /\ Contains(result.command, ForkBomb)) =>
        /\ result.hasDanger = TRUE
        /\ \E k \in DOMAIN result.risks :
              result.risks[k] = Finding(critical, "Fork bomb - crashes system")

C2_Witness ==
    /\ called
    /\ \E i \in 2..(Len(result.command) - Len(ForkBomb)) :
          SubSeq(result.command, i, i + Len(ForkBomb) - 1) = ForkBomb
    /\ result.hasDanger = TRUE

\* the reference signature table of the specification, risk and reason per row
\* (the dash of row 8 is U+2014 there)
ReferenceTable == <<
    Finding(critical, "Deletes root filesystem"),
    Finding(high, "Recursive force delete without confirmation"),
    Finding(critical, "Formats filesystem, destroys all data"),
    Finding(critical, "Overwrites disk device directly"),
    Finding(critical, "Overwrites disk device"),
    Finding(high, "Removes all file permission security"),
    Finding(medium, "Recursive ownership change"),
    Finding(critical, "Fork bomb \\u2014 crashes system"),
    Finding(critical, "Overwrites user database"),
    Finding(high, "Executes remote script without review"),
    Finding(high, "Executes remote script without review") >>

\* the reference table with the two reasons as the findings spell them
FindingTable ==
    [ReferenceTable EXCEPT
        ![6] = Finding(high, "Removes all file permissions security"),
        ![8] = Finding(critical, "Fork bomb - crashes system")]

\* C3 as stated: every finding carries the risk level and reason text of the
\* reference table's row for the signature that matched.
C3_FindingsAsReferenceTable ==
    called =>
        LET order == Ascending(MatchingSignatures(result.command))
        IN /\ Len(result.risks) = Len(order)
           /\ \A k \in DOMAIN order : result.risks[k] = ReferenceTable[order[k]]

\* C3 amended: every finding carries the risk level and reason text of the
\* matched signature's row of the reference table, with the reason of
\* `chmod -R 777` spelled "Removes all file permissions security" and that of
\* the fork bomb "Fork bomb - crashes system".
C3_FindingsAsTable ==
    called =>
        LET order == Ascending(MatchingSignatures(result.command))
        IN /\ Len(result.risks) = Len(order)
           /\ \A k \in DOMAIN order : result.risks[k] = FindingTable[order[k]]
           /\ result.command = ChmodVar =>
                 result.risks = <<Finding(high, "Removes all file permissions security")>>

C3_Witness ==
    /\ called
    /\ result.command = ChmodVar
    /\ Len(result.risks) = 1

\* C4: hasDanger is true exactly when the findings list is non-empty.
C4_HasDangerIffFindings ==
    called => (result.hasDanger <=> result.risks # <<>>)

C4_Witness ==
    /\ called
    /\ result.hasDanger = TRUE
    /\ Len(result.risks) = 1

UpperCased == [r \in {critical, high, medium} |->
                 CASE r = critical -> "CRITICAL" [] r = high -> "HIGH" [] r = medium -> "MEDIUM"]

NoDangerTail ==
    <<"", "However, always:",
      "1. Understand what a command does before running it",
      "2. Test with dry-run flags when available",
      "3. Have backups for important data",
      "4. Use sudo only when necessary">>

DangerTail ==
    <<"", "Provide:",
      "1. **Why It's Dangerous**: Detailed explanation of what could go wrong",
      "2. **Safer Alternative**: A safer way to accomplish the same goal",
      "3. **If You Must Proceed**: Precautions and backup steps",
      "4. **Recovery Options**: What to do if something goes wrong">>

\* C5: the guidance is the danger template exactly when hasDanger is true and
\* the fixed no-danger acknowledgment otherwise; the danger template restates
\* the command and has one line "- [RISK_LEVEL] reason" per finding, risk level
\* upper-cased, in the order and number of the findings.
C5_GuidanceTemplate ==
    called =>
        LET text == result.instruction
            n == Len(result.risks)
        IN /\ result.hasDanger = TRUE =>
                /\ Len(text) = 3 + n + Len(DangerTail)
                /\ text[1] = "\\u26A0\\uFE0F DANGER DETECTED in command: "
                                \o Str(result.command)
                /\ text[3] = "Risks found:"
                /\ \A k \in 1..n :
                      text[3 + k] = "- [" \o UpperCased[result.risks[k].risk] \o "] "
                                       \o result.risks[k].reason
                /\ SubSeq(text, 4 + n, Len(text)) = DangerTail
           /\ result.hasDanger = FALSE =>
                text = <<"\\u2705 No obvious dangers detected in: " \o Str(result.command)>>
                          \o NoDangerTail

C5_Witness ==
    /\ called
    /\ result.hasDanger = TRUE
    /\ Len(result.risks) = 2
    /\ result.risks[1].risk # result.risks[2].risk

\* C6: a command that matches exactly one signature yields exactly one
\* finding, that signature's; `curl http://example.com/install.sh | bash`
\* yields only {high, "Executes remote script without review"} and
\* `chown -R user:user /data` only {medium, "Recursive ownership change"}.
C6_SingleMatchSingleFinding ==
    called =>
        /\ LET order == Ascending(MatchingSignatures(result.command))
           IN Len(order) = 1 =>
                 result.risks = <<Finding(dangerousPatterns[order[1]].risk,
                                          dangerousPatterns[order[1]].reason)>>
        /\ result.command = CurlBash =>
              result.risks = <<Finding(high, "Executes remote script without review")>>
        /\ result.command = ChownData =>
              result.risks = <<Finding(medium, "Recursive ownership change")>>

C6_Witness ==
    /\ called
    /\ result.command = CurlBash
    /\ Len(result.risks) = 1

\* C7: dangerCheck is total: a call is possible on every input, the empty
\* string included, and returns a result; an input that matches no signature
\* (`ls -la`, the empty string) yields hasDanger false and no findings.
C7_TotalAndQuietOnNoMatch ==
    /\ ncalls > 0 => called
    /\ called =>
          /\ result.type = "danger_check"
          /\ DOMAIN result = {"type", "command", "risks", "hasDanger", "instruction"}
          /\ MatchingSignatures(result.command) = {} =>
                (result.hasDanger = FALSE /\ result.risks = <<>>)
          /\ result.command \in {LsLa, <<>>} =>
                (result.hasDanger = FALSE /\ result.risks = <<>>)

C7_Witness ==
    /\ called
    /\ result.command = <<>>
    /\ result.risks = <<>>

\* C8: two calls with the same command return identical results, whatever
\* calls were made before, and no call changes the signature table.
C8_Pure ==
    /\ called => result = first
    /\ tableState = Zeros

C8_Witness ==
    /\ called
    /\ ncalls = 2
    /\ others = TRUE
    /\ result.hasDanger = TRUE

\* whether the command applies rm -rf or rm -r to the root directory: the
\* path argument is `/` alone, ending the command or followed by white space
RootDelete(cmd) ==
    \E start \in 0..Len(cmd) :
        \E e \in Ends(dangerousPatterns[1].pattern.source, cmd, start) :
            e = Len(cmd) \/ cmd[e + 1] \in WhiteSpace

Upper(s) == [i \in DOMAIN s |-> IF s[i] = "l" THEN "L" ELSE s[i]]

\* an optional argument that was given and is not the empty string
Given(x) == x # Absent /\ x # Present(<<>>)

\* the number of characters of line i of the latest call's instruction that
\* do not come from the arguments, if every given argument is embedded as is
LiteralLength(h, i) ==
    Len(h.value.instruction[i])
      - (IF i = 1
         THEN Len(h.args[1])
                + (IF Len(h.args) = 2 /\ h.args[2].present THEN Len(h.args[2].value) ELSE 0)
         ELSE IF h.tool = "manPage" /\ i = 4 THEN Len(h.args[1]) ELSE 0)

\* C12 as stated: the four tools carry no branching; whatever the arguments,
\* a tool returns the same fields and the same fixed text around the
\* arguments, whether or not the optional argument is present, and embeds
\* every argument untransformed.
C12_NoBranching ==
    [][ (helper # NoResult /\ helper'.tool = helper.tool) =>
            /\ DOMAIN helper'.value = DOMAIN helper.value
            /\ Len(helper'.value.instruction) = Len(helper.value.instruction)
            /\ \A i \in DOMAIN helper.value.instruction :
                  LiteralLength(helper', i) = LiteralLength(helper, i)
            /\ helper'.tool = "manPage" =>
                  helper'.value.instruction[4]
                    = "## " \o Str(helper'.args[1]) \o "(1) - Manual Page Summary"
      ]_vars

\* C12: each of the four tools returns its fixed fields and its fixed prompt
\* with the required argument embedded verbatim in the first line; the lines
\* after the first do not depend on the arguments, except that manPage's
\* heading line carries the command in upper case; suggestCommand and
\* fixError append the clause " (for <distro>)" / " (Context: <context>)" to
\* the first line only when the optional argument is given and not empty, and
\* return it in the field distro / context, or "generic" / "unknown" in its
\* place when it is absent or empty.
C12_TemplatesWithOptionalClause ==
    helper # NoResult =>
        LET a == helper.args
            v == helper.value
            text == v.instruction
        IN CASE helper.tool = "explainCommand" ->
                  /\ DOMAIN v = {"type", "command", "instruction"}
                  /\ v.type = "explain"
                  /\ v.command = a[1]
                  /\ text[1] = "Provide a detailed breakdown of this command: " \o Str(a[1])
                  /\ Tail(text) = Tail(explainCommand(<<>>).instruction)
             [] helper.tool = "suggestCommand" ->
                  /\ DOMAIN v = {"type", "task", "distro", "instruction"}
                  /\ v.type = "suggest"
                  /\ v.task = a[1]
                  /\ v.distro = IF Given(a[2]) THEN a[2].value ELSE generic
                  /\ text[1] = "Suggest the best command(s) to: " \o Str(a[1])
                                 \o (IF Given(a[2])
                                     THEN " (for " \o Str(a[2].value) \o ")" ELSE "")
                  /\ Tail(text) = Tail(suggestCommand(<<>>, Absent).instruction)
             [] helper.tool = "fixError" ->
                  /\ DOMAIN v = {"type", "error", "context", "instruction"}
                  /\ v.type = "fix"
                  /\ v.error = a[1]
                  /\ v.context = IF Given(a[2]) THEN a[2].value ELSE unknown
                  /\ text[1] = "Help troubleshoot this error: " \o Str(a[1])
                                 \o (IF Given(a[2])
                                     THEN " (Context: " \o Str(a[2].value) \o ")" ELSE "")
                  /\ Tail(text) = Tail(fixError(<<>>, Absent).instruction)
             [] helper.tool = "manPage" ->
                  /\ DOMAIN v = {"type", "command", "instruction"}
                  /\ v.type = "manpage"
                  /\ v.command = a[1]
                  /\ Len(text) = Len(manPage(<<>>).instruction)
                  /\ text[1] = "Provide a man page summary for: " \o Str(a[1])
                  /\ text[4] = "## " \o Str(Upper(a[1])) \o "(1) - Manual Page Summary"
                  /\ \A i \in DOMAIN text \ {1, 4} : text[i] = manPage(<<>>).instruction[i]

C12_Witness ==
    /\ helper # NoResult
    /\ helper.tool = "suggestCommand"
    /\ helper.args = << <<"l", "-">>, Present(<<>>) >>
    /\ helper.value.distro = generic
    /\ helper.value.instruction[1] = "Suggest the best command(s) to: l-"

(***************************************************************************)
(* Properties of the agent                                                 *)
(***************************************************************************)
\* the events sent so far while handling request r, in sending order (a
\* request is answered on the connection it arrived on)
EventsOf(r) == SelectSeq(sent[outcome[r].conn], LAMBDA e : e.req = r)

ErrorsOf(r) == SelectSeq(EventsOf(r), LAMBDA e : e.event.type = "error")

\* the type tags of the events sent so far
SentTags == UNION {{sent[c][i].event.type : i \in DOMAIN sent[c]} : c \in Conns}

ListedTags == {"history", "stream", "done", "error", "cleared", "tool_calls", "tool_results"}

\* C9 as stated: every event the agent sends carries a type tag from
\* {history, stream, done, error, cleared, tool_calls, tool_results}.
C9_TagsAsListed == SentTags \subseteq ListedTags

\* C9 amended: every event the agent sends carries a type tag from
\* {history, stream, done, error, cleared, tool_calls, tool_results,
\* tool_result}; the answer to a tool_confirm is tagged tool_result.
C9_TagsWithToolResult ==
    /\ SentTags \subseteq ListedTags \cup {"tool_result"}
    /\ \A r \in DOMAIN outcome :
          \A i \in DOMAIN EventsOf(r) :
             EventsOf(r)[i].event.type = "tool_result" <=>
                (outcome[r].message.value.type = "tool_confirm"
                   /\ outcome[r].failure = "none")

C9_Witness ==
    /\ "tool_result" \in SentTags
    /\ "cleared" \in SentTags

\* whether the incoming message is one the claim calls a payload that cannot
\* be processed: text that is not JSON, or a tool_confirm naming no tool
Unprocessable(message) ==
    \/ ~message.json
    \/ (message.value.type = "tool_confirm" /\ message.value.toolName \notin OwnTools)

\* C10: every failure while a message is handled surfaces as exactly one error
\* event: a payload that cannot be processed (unparsable JSON, unknown tool
\* name in tool_confirm) produces "Failed to process message", a failure of the
\* completion service "Failed to generate response. Please try again.".
C10_FailuresSurfaceOnce ==
    \A r \in DOMAIN outcome :
        (\A chat \in chats : chat.req # r) =>
            /\ Len(ErrorsOf(r)) = IF outcome[r].failure = "none" THEN 0 ELSE 1
            /\ Unprocessable(outcome[r].message) =>
                  (Len(ErrorsOf(r)) = 1
                     /\ ErrorsOf(r)[1].event.message = "Failed to process message")
            /\ outcome[r].failure = "CompletionError" =>
                  ErrorsOf(r)[1].event.message
                     = "Failed to generate response. Please try again."

\* the step handles a new incoming message of the given type without failure
Handles(type) ==
    /\ nreq' = nreq + 1
    /\ outcome'[nreq'].message.json
    /\ outcome'[nreq'].message.value.type = type
    /\ outcome'[nreq'].failure = "none"

\* the step sends a done event on connection c
SendsDone(c) ==
    /\ Len(sent'[c]) = Len(sent[c]) + 1
    /\ sent'[c][Len(sent'[c])].event.type = "done"

\* C11: the message log is append-only between clears and read in append
\* order: a chat request adds its user record when it is accepted, before any
\* generation event, and its assistant record (the response) when it
\* completes; get_history returns all records in append order and leaves the
\* log alone; clear removes every record; nothing else changes the log.
C11_AppendOnlyLog ==
    [][ /\ Handles("chat") =>
              /\ messages' = Append(messages,
                    [role |-> "user", content |-> outcome'[nreq'].message.value.content])
              /\ sent' = sent
        /\ Handles("clear") => messages' = <<>>
        /\ Handles("get_history") =>
              /\ messages' = messages
              /\ LET c == outcome'[nreq'].conn
                 IN sent'[c][Len(sent'[c])].event
                       = [type |-> "history", messages |-> messages]
        /\ \A c \in Conns :
              SendsDone(c) =>
                 messages' = Append(messages,
                    [role |-> "assistant",
                     content |-> sent'[c][Len(sent'[c])].event.content])
        /\ messages' # messages =>
              \/ Handles("chat")
              \/ Handles("clear")
              \/ \E c \in Conns : SendsDone(c)
      ]_vars

C11_Witness ==
    /\ Len(messages) = 2
    /\ messages[1].role = "user"
    /\ messages[2].role = "assistant"
    /\ rowReq[1] = rowReq[2]
    /\ \E c \in Conns : \E i \in DOMAIN sent[c] :
          /\ sent[c][i].event.type = "history"
          /\ sent[c][i].event.messages = messages

\* C15: in the message log every assistant record is immediately preceded by
\* the user record of the chat request it answers, whatever the interleaving.
C15_AssistantFollowsItsUser ==
    \A i \in DOMAIN messages :
        messages[i].role = "assistant" =>
            /\ i > 1
            /\ messages[i - 1].role = "user"
            /\ rowReq[i - 1] = rowReq[i]

\* request r is a chat request, accepted or not
IsChat(r) == outcome[r].message.json /\ outcome[r].message.value.type = "chat"

\* request k is a clear that was answered with `cleared`
Cleared(k) ==
    /\ outcome[k].message.json
    /\ outcome[k].message.value.type = "clear"
    /\ \E i \in DOMAIN sent[outcome[k].conn] :
          sent[outcome[k].conn][i] = [req |-> k, event |-> clearedEvent]

\* C14: for each chat request received, the agent eventually sends exactly
\* one terminal event (done or error, never both), and every stream,
\* tool_calls and tool_results event of the request is sent before it.
Terminals == {"done", "error"}
TerminalsOf(r) ==
    {i \in DOMAIN sent[outcome[r].conn] :
        /\ sent[outcome[r].conn][i].req = r
        /\ sent[outcome[r].conn][i].event.type \in Terminals}
C14_OneTerminalEvent ==
    /\ [](\A r \in DOMAIN outcome :
            IsChat(r) =>
               /\ Cardinality(TerminalsOf(r)) <= 1
               /\ \A t \in TerminalsOf(r) : \A i \in DOMAIN sent[outcome[r].conn] :
                     sent[outcome[r].conn][i].req = r => i <= t)
    /\ []<>(\A r \in DOMAIN outcome : IsChat(r) => Cardinality(TerminalsOf(r)) = 1)

C14_Witness ==
    \E r \in DOMAIN outcome :
        /\ IsChat(r)
        /\ Cardinality(TerminalsOf(r)) = 1
        /\ \E i \in DOMAIN sent[outcome[r].conn] :
              /\ sent[outcome[r].conn][i].req = r
              /\ sent[outcome[r].conn][i].event.type = "stream"

\* C16: once a clear has been answered with `cleared`, a get_history that
\* follows it with no chat request received in between returns the empty
\* list, also when a chat was being generated when the clear was handled.
C16_EmptyAfterClear ==
    \A c \in Conns : \A i \in DOMAIN sent[c] :
        LET r == sent[c][i].req
        IN (/\ sent[c][i].event.type = "history"
            /\ \E k \in 1..(r - 1) :
                  /\ Cleared(k)
                  /\ \A j \in (k + 1)..(r - 1) : ~IsChat(j))
           => sent[c][i].event.messages = <<>>

(***************************************************************************)
(* Properties of the client                                                *)
(***************************************************************************)
\* the step is ws.onmessage handling a done event
ProcessesDone ==
    /\ received' = received + 1
    /\ sent[ClientConn][received'].event.type = "done"

\* C17: in the client, after a done event has been processed, the last entry
\* of the displayed message list is a non-streaming assistant message whose
\* content is the content of the done event, whether or not a stream event
\* was received before it.
C17_DoneShowsAnswer ==
    [][ ProcessesDone =>
           /\ displayed' # <<>>
           /\ displayed'[Len(displayed')]
                = Message("assistant", sent[ClientConn][received'].event.content, FALSE)
      ]_vars

\* C18: in the client, whenever sendMessage has set isLoading to true,
\* isLoading eventually returns to false, also when the socket closes before
\* a done or error event for the request arrives.
C18_LoadingEnds == isLoading ~> ~isLoading

====
